---------------------------- MODULE Spec2Model ----------------------------
(***************************************************************************)
(* Model of src/src/crypto_vfs.c: the SQLCipher VFS shim that reserves a    *)
(* header region at the start of a database file and shifts read, write,   *)
(* truncate and file-size calls by the size of that region.                *)
(*                                                                         *)
(* Four specifications share the variables:                                *)
(*   Spec       - one file, one handle: open, the four offsetting methods, *)
(*                the pass-through methods, close and reopen;              *)
(*   SpecHandle - the same steps, from the open handle of a new file on    *)
(*                which the header is enabled;                             *)
(*   SpecCodec  - sqlcipherVfsWriteHeader followed by                      *)
(*                sqlcipherVfsReadHeader on the bytes it produced;         *)
(*   SpecReg    - sqlcipherVfs_register against the VFS list.              *)
(*                                                                         *)
(* Bytes are 0..255 and the header layout keeps its real sizes (32-byte    *)
(* magic, 4-byte big-endian fields).  u32 values stay below 2^31, the      *)
(* largest integer the model checker represents.                           *)
(***************************************************************************)
EXTENDS Integers, Sequences, FiniteSets, TLC

VARIABLES
  disk,      \* bytes of the underlying (real) file
  sector,    \* what the underlying xSectorSize returns
  hstate,    \* "closed" | "open" | "crashed"
  p,         \* the sqlcipherVfs_file of the handle
  rc_open,   \* return code of the last sqlcipherVfsOpen
  lastop,    \* the last call made through the handle, with its result
  calls,     \* the underlying calls issued by the last handler, in order
  ref,       \* reference: a plain file that starts at logical offset 0
  external,  \* TRUE once the real file was changed behind the shim
  ub,        \* TRUE once a header buffer was accessed out of bounds
  nops,      \* number of steps taken (bounded by MaxOps)
  story,     \* progress of "new empty file, first write at offset 0, reopen"
  detect,    \* what header detection found when the handle was opened
  hdrWrites, \* header writes issued through the handle: tried and succeeded
  orig,      \* SpecCodec: the header record that was encoded
  cstage,    \* SpecCodec: "init" | "written" | "detected"
  vfsList,   \* SpecReg: the list of registered VFSes, default first
  lastreg,   \* SpecReg: the last sqlcipherVfs_register call
  prevreg    \* SpecReg: the register call right before lastreg

vars == <<disk, sector, hstate, p, rc_open, lastop, calls, ref, external,
          ub, nops, story, detect, hdrWrites, orig, cstage, vfsList, lastreg,
          prevreg>>

fileVars == <<disk, sector, hstate, p, rc_open, lastop, calls, ref, external,
              ub, nops, story, detect, hdrWrites>>
codecVars == <<orig, cstage>>
regVars == <<vfsList, lastreg, prevreg>>

---------------------------------------------------------------------------
(* Bounds of the model *)

MaxOps == 4

---------------------------------------------------------------------------
(* Constants of the program *)

SQLCIPHER_MAGIC_SZ == 32

SQLCIPHER_MIN_HDR_SZ == SQLCIPHER_MAGIC_SZ + 4

sqlcipherMagic ==
  << 176,   8, 166, 121, 117, 126,  62, 158,
     243,   0,  88, 221, 184, 157, 226,  59,
     125, 146, 218, 175, 224,  17,  10,  95,
       5, 118,  74, 246, 237, 157, 228, 132 >>

\* end of the last field (flags at 52, 4 bytes) of the header format
HdrFieldsEnd == 52 + 4

OK == "SQLITE_OK"
IOERR == "SQLITE_IOERR"
SHORT_READ == "SQLITE_IOERR_SHORT_READ"
CANTOPEN == "SQLITE_CANTOPEN"
NOTFOUND == "SQLITE_NOTFOUND"
NOMEM == "SQLITE_NOMEM"

\* not a return code: the call went through a NULL method table
NULLCALL == "call through NULL pMethods"

---------------------------------------------------------------------------
(* Byte helpers *)

Max(a, b) == IF a >= b THEN a ELSE b

\* sqlite3Put4byte: big-endian encoding of a u32
sqlite3Put4byte(v) ==
  << (v \div 16777216) % 256, (v \div 65536) % 256, (v \div 256) % 256, v % 256 >>

\* byte i (0-based) of buffer b of the given size; bytes of the buffer that
\* were never stored are 0, bytes outside the buffer are the garbage byte g
BufAt(b, size, i, g) ==
  IF i >= size THEN g
  ELSE IF i < Len(b) THEN b[i + 1] ELSE 0

\* sqlite3Get4byte at 0-based offset o of buffer b
sqlite3Get4byte(b, size, o, g) ==
    BufAt(b, size, o, g) * 16777216 + BufAt(b, size, o + 1, g) * 65536
  + BufAt(b, size, o + 2, g) * 256 + BufAt(b, size, o + 3, g)

\* faulty variant: the comparison with the magic always succeeds
MagicMatchesAny(b) == TRUE

\* memcmp(buf, sqlcipherMagic, SQLCIPHER_MAGIC_SZ) == 0
MagicMatches(b) ==
  /\ Len(b) >= SQLCIPHER_MAGIC_SZ
  /\ \A i \in 1..SQLCIPHER_MAGIC_SZ : b[i] = sqlcipherMagic[i]

---------------------------------------------------------------------------
(* The underlying file: the io methods of pReal.  A read past the end of   *)
(* the file is a short read; data holds the bytes that were read, the rest *)
(* of the caller's buffer is zero-filled.  fail injects an I/O error.      *)

xRead(d, amt, ofst, fail) ==
  IF fail THEN [rc |-> IOERR, data |-> <<>>]
  ELSE IF ofst + amt <= Len(d)
       THEN [rc |-> OK, data |-> SubSeq(d, ofst + 1, ofst + amt)]
       ELSE [rc |-> SHORT_READ,
             data |-> IF ofst >= Len(d) THEN <<>> ELSE SubSeq(d, ofst + 1, Len(d))]

xWrite(d, data, ofst, fail) ==
  IF fail THEN [rc |-> IOERR, disk |-> d]
  ELSE [rc |-> OK,
        disk |-> [i \in 1..Max(Len(d), ofst + Len(data)) |->
                    IF i > ofst /\ i <= ofst + Len(data) THEN data[i - ofst]
                    ELSE IF i <= Len(d) THEN d[i] ELSE 0]]

xTruncate(d, size, fail) ==
  IF fail \/ size < 0 THEN [rc |-> IOERR, disk |-> d]
  ELSE [rc |-> OK, disk |-> [i \in 1..size |-> IF i <= Len(d) THEN d[i] ELSE 0]]

\* on failure the size is not stored: the caller's variable keeps the value
\* it had, junk
xFileSize(d, fail, junk) ==
  IF fail THEN [rc |-> IOERR, size |-> junk]
  ELSE [rc |-> OK, size |-> Len(d)]

Call(fn, amt, ofst, rc) == [fn |-> fn, amt |-> amt, ofst |-> ofst, rc |-> rc]

---------------------------------------------------------------------------
(* The handle: struct sqlcipherVfs_file.  wired says that pFile->pMethods  *)
(* points at the shim's method table.                                      *)

Handle(j) ==
  [wired |-> FALSE, use_header |-> j % 2, needs_write |-> j % 2, did_read |-> j % 2,
   reserve_sz |-> j, version |-> j, page_sz |-> j, kdf_iter |-> j,
   fast_kdf_iter |-> j, flags |-> j]

\* p->use_header ? p->reserve_sz : 0
HeaderOffset(h) == IF h.use_header = 1 THEN h.reserve_sz ELSE 0

---------------------------------------------------------------------------
(* sqlcipherVfsReadHeader.  f.rd1, f.rd2, f.fsz inject a failure of the    *)
(* 36-byte read, of the full header read and of the size query; g is the   *)
(* byte found behind the end of the header buffer when the decode runs     *)
(* past it (reserve_sz below 56).  branch names the branch that was taken. *)

sqlcipherVfsReadHeader(h, d, sect, f, g) ==
  LET h0 == [h EXCEPT !.use_header = 0, !.needs_write = 0, !.did_read = 0]
      r1 == xRead(d, SQLCIPHER_MIN_HDR_SZ, 0, f.rd1)
      c1 == Call("xRead", SQLCIPHER_MIN_HDR_SZ, 0, r1.rc)
  IN  IF r1.rc = OK
      THEN IF MagicMatches(r1.data)
           THEN LET rs == sqlite3Get4byte(r1.data, SQLCIPHER_MIN_HDR_SZ, 32, g)
                    h1 == [h0 EXCEPT !.reserve_sz = rs]
                    r2 == xRead(d, rs, 0, f.rd2)
                    c2 == Call("xRead", rs, 0, r2.rc)
                IN  IF r2.rc = OK
                    THEN [p |-> [h1 EXCEPT
                                   !.version = sqlite3Get4byte(r2.data, rs, 36, g),
                                   !.page_sz = sqlite3Get4byte(r2.data, rs, 40, g),
                                   !.kdf_iter = sqlite3Get4byte(r2.data, rs, 44, g),
                                   !.fast_kdf_iter = sqlite3Get4byte(r2.data, rs, 48, g),
                                   !.flags = sqlite3Get4byte(r2.data, rs, 52, g),
                                   !.use_header = 1, !.did_read = 1],
                          calls |-> << c1, c2 >>,
                          ub |-> rs < HdrFieldsEnd,
                          branch |-> "header"]
                    ELSE [p |-> h1, calls |-> << c1, c2 >>, ub |-> FALSE,
                          branch |-> "header unreadable"]
           ELSE [p |-> [h0 EXCEPT !.reserve_sz = 0], calls |-> << c1 >>, ub |-> FALSE,
                 branch |-> "plain"]
      ELSE LET s == xFileSize(d, f.fsz, 0)
               c3 == Call("xFileSize", 0, 0, s.rc)
           IN  IF s.rc = OK /\ s.size = 0
               THEN [p |-> [h0 EXCEPT !.reserve_sz = sect, !.needs_write = 1],
                     calls |-> << c1, c3, Call("xSectorSize", 0, 0, OK) >>,
                     ub |-> FALSE,
                     branch |-> "new"]
               ELSE [p |-> h0, calls |-> << c1, c3 >>, ub |-> FALSE,
                     branch |-> "unknown issue"]

---------------------------------------------------------------------------
(* sqlcipherVfsWriteHeader: the header image is built in a zeroed buffer   *)
(* of reserve_sz bytes and written at real offset 0.  The function returns *)
(* SQLITE_OK whatever the write returned (wrc).  With reserve_sz below 56  *)
(* the stores run past the buffer; the bytes that fit are written.         *)

\* faulty variant: version and page_sz are stored at each other's offset
HeaderImage_Swapped(h) ==
  sqlcipherMagic \o sqlite3Put4byte(h.reserve_sz) \o sqlite3Put4byte(h.page_sz)
    \o sqlite3Put4byte(h.version) \o sqlite3Put4byte(h.kdf_iter)
    \o sqlite3Put4byte(h.fast_kdf_iter) \o sqlite3Put4byte(h.flags)

HeaderImage(h) ==
  sqlcipherMagic \o sqlite3Put4byte(h.reserve_sz) \o sqlite3Put4byte(h.version)
    \o sqlite3Put4byte(h.page_sz) \o sqlite3Put4byte(h.kdf_iter)
    \o sqlite3Put4byte(h.fast_kdf_iter) \o sqlite3Put4byte(h.flags)

HeaderBuffer(h) ==
  LET image == HeaderImage(h)
  IN  [i \in 1..h.reserve_sz |-> IF i <= HdrFieldsEnd THEN image[i] ELSE 0]

sqlcipherVfsWriteHeader(h, d, fail) ==
  LET w == xWrite(d, HeaderBuffer(h), 0, fail)
  IN  [rc |-> OK, wrc |-> w.rc, disk |-> w.disk,
       calls |-> << Call("xWrite", h.reserve_sz, 0, w.rc) >>,
       ub |-> h.reserve_sz < HdrFieldsEnd]

---------------------------------------------------------------------------
(* The four methods that account for the header.  Each returns the return  *)
(* code, what it delivers, the file and handle afterwards and the          *)
(* underlying calls it made.                                               *)

\* faulty variant: the read forgets the header offset
sqlcipherVfsRead_NoOffset(h, d, amt, ofst, fail) ==
  LET r == xRead(d, amt, ofst, fail)
  IN  [rc |-> r.rc, data |-> r.data, calls |-> << Call("xRead", amt, ofst, r.rc) >>]

sqlcipherVfsRead(h, d, amt, ofst, fail) ==
  LET r == xRead(d, amt, ofst + HeaderOffset(h), fail)
  IN  [rc |-> r.rc, data |-> r.data,
       calls |-> << Call("xRead", amt, ofst + HeaderOffset(h), r.rc) >>]

\* the condition under which a logical write writes the header first
HeaderWriteDue(h, ofst) ==
  /\ h.use_header = 1
  /\ h.reserve_sz >= SQLCIPHER_MIN_HDR_SZ
  /\ ofst = 0
  /\ h.needs_write = 1

\* faulty variant: needs_write is left set after the header was written
sqlcipherVfsWrite_KeepPending(h, d, data, ofst, failH, failD) ==
  LET trig == HeaderWriteDue(h, ofst)
      wh == sqlcipherVfsWriteHeader(h, d, failH)
      d1 == IF trig THEN wh.disk ELSE d
      w  == xWrite(d1, data, ofst + HeaderOffset(h), failD)
      c  == Call("xWrite", Len(data), ofst + HeaderOffset(h), w.rc)
  IN  [rc |-> w.rc, disk |-> w.disk, p |-> h,
       calls |-> IF trig THEN wh.calls \o << c >> ELSE << c >>,
       hdrWritten |-> trig,
       ub |-> trig /\ wh.ub]

\* faulty variant: the header write clears use_header, not needs_write
sqlcipherVfsWrite_ClearsUseHeader(h, d, data, ofst, failH, failD) ==
  LET trig == HeaderWriteDue(h, ofst)
      wh == sqlcipherVfsWriteHeader(h, d, failH)
      h1 == IF trig THEN [h EXCEPT !.use_header = 0] ELSE h
      d1 == IF trig THEN wh.disk ELSE d
      w  == xWrite(d1, data, ofst + HeaderOffset(h1), failD)
      c  == Call("xWrite", Len(data), ofst + HeaderOffset(h1), w.rc)
  IN  [rc |-> w.rc, disk |-> w.disk, p |-> h1,
       calls |-> IF trig THEN wh.calls \o << c >> ELSE << c >>,
       hdrWritten |-> trig,
       ub |-> trig /\ wh.ub]

sqlcipherVfsWrite(h, d, data, ofst, failH, failD) ==
  LET trig == HeaderWriteDue(h, ofst)
      wh == sqlcipherVfsWriteHeader(h, d, failH)
      h1 == IF trig THEN [h EXCEPT !.needs_write = 0] ELSE h
      d1 == IF trig THEN wh.disk ELSE d
      w  == xWrite(d1, data, ofst + HeaderOffset(h1), failD)
      c  == Call("xWrite", Len(data), ofst + HeaderOffset(h1), w.rc)
  IN  [rc |-> w.rc, disk |-> w.disk, p |-> h1,
       calls |-> IF trig THEN wh.calls \o << c >> ELSE << c >>,
       hdrWritten |-> trig,
       ub |-> trig /\ wh.ub]

\* faulty variant: the truncate forgets the header offset
sqlcipherVfsTruncate_NoOffset(h, d, size, fail) ==
  LET t == xTruncate(d, size, fail)
  IN  [rc |-> t.rc, disk |-> t.disk, calls |-> << Call("xTruncate", 0, size, t.rc) >>]

sqlcipherVfsTruncate(h, d, size, fail) ==
  LET t == xTruncate(d, size + HeaderOffset(h), fail)
  IN  [rc |-> t.rc, disk |-> t.disk,
       calls |-> << Call("xTruncate", 0, size + HeaderOffset(h), t.rc) >>]

\* faulty variant: the reserve is subtracted without the floor at zero
sqlcipherVfsFileSize_NoFloor(h, d, fail, junk) ==
  LET r == xFileSize(d, fail, junk)
  IN  [rc |-> r.rc,
       size |-> IF h.use_header = 1 THEN r.size - h.reserve_sz ELSE r.size,
       calls |-> << Call("xFileSize", 0, 0, r.rc) >>]

sqlcipherVfsFileSize(h, d, fail, junk) ==
  LET r == xFileSize(d, fail, junk)
  IN  [rc |-> r.rc,
       size |-> IF h.use_header = 1
                THEN (IF r.size >= h.reserve_sz THEN r.size - h.reserve_sz ELSE 0)
                ELSE r.size,
       calls |-> << Call("xFileSize", 0, 0, r.rc) >>]

---------------------------------------------------------------------------
(* sqlcipherVfsOpen.  When the underlying xOpen fails it leaves            *)
(* pReal->pMethods NULL: the method table is not wired, and                *)
(* sqlcipherVfsReadHeader, called all the same, calls through the NULL     *)
(* table; the process does not survive that ("crashed").                   *)

sqlcipherVfsOpen(h, d, sect, openFail, f, g) ==
  IF openFail
  THEN [rc |-> CANTOPEN,
        p |-> [h EXCEPT !.wired = FALSE, !.use_header = 0, !.needs_write = 0,
                        !.did_read = 0],
        state |-> "crashed",
        calls |-> << Call("xOpen", 0, 0, CANTOPEN),
                     Call("xRead", SQLCIPHER_MIN_HDR_SZ, 0, NULLCALL) >>,
        ub |-> FALSE, branch |-> "none"]
  ELSE LET rh == sqlcipherVfsReadHeader([h EXCEPT !.wired = TRUE], d, sect, f, g)
       IN  [rc |-> OK, p |-> rh.p, state |-> "open",
            calls |-> << Call("xOpen", 0, 0, OK) >> \o rh.calls, ub |-> rh.ub,
            branch |-> rh.branch]

---------------------------------------------------------------------------
(* Inputs of the file specification *)

\* the header of the existing database files
StoredFields ==
  [Handle(0) EXCEPT !.reserve_sz = 64, !.version = 4, !.page_sz = 4096,
                    !.kdf_iter = 256000, !.fast_kdf_iter = 2, !.flags = 1]

PlainShort == << 1, 2, 3, 4, 5, 6, 7, 8 >>

\* a plain file of 40 bytes; its bytes 32..35 read as the number 16
PlainLong == [i \in 1..40 |-> IF i \in 33..35 THEN 0 ELSE IF i = 36 THEN 16 ELSE 50 + i]

Headered == HeaderBuffer(StoredFields) \o << 21, 22, 23, 24, 25, 26, 27, 28 >>

HeaderedCut == SubSeq(HeaderBuffer(StoredFields), 1, 40)

\* a file whose header announces a reserve of 40 bytes: the magic, the
\* reserve size and the version, then eight bytes of data
HeaderedSmall ==
  SubSeq(HeaderImage([StoredFields EXCEPT !.reserve_sz = 40]), 1, 40)
    \o << 31, 32, 33, 34, 35, 36, 37, 38 >>

InitialFiles == { <<>>, PlainShort, PlainLong, Headered, HeaderedCut, HeaderedSmall }

SectorSizes == { 64 }

\* what a caller writes: four bytes, or 64 bytes that look like a header
WriteBufs == { << 17, 18, 19, 20 >>, HeaderBuffer(StoredFields) }

ReadLens == { 4, 64 }

Offsets == { 0, 4 }

TruncSizes == { 0, 4 }

ExternalSizes == { 0, 40 }

\* content of memory that was never written
Junk == { 0, 171 }

GarbageBytes == { 0, 90 }

JunkSizes == { 0, -1 }

Faults == [rd1 : BOOLEAN, rd2 : BOOLEAN, fsz : BOOLEAN]

PassThroughs ==
  { "xSync", "xLock", "xUnlock", "xCheckReservedLock", "xFileControl",
    "xSectorSize", "xDeviceCharacteristics", "xShmLock", "xShmMap",
    "xShmBarrier", "xShmUnmap" }

\* a file carries a managed header when it starts with the magic and holds
\* the whole region the stored reserve size announces; a region too short
\* for all the fields (36..55 bytes) counts as a header here as well
StartsWithMagic(d) ==
  /\ Len(d) >= SQLCIPHER_MAGIC_SZ
  /\ SubSeq(d, 1, SQLCIPHER_MAGIC_SZ) = sqlcipherMagic

CarriesHeader(d) ==
  /\ Len(d) >= SQLCIPHER_MIN_HDR_SZ
  /\ StartsWithMagic(d)
  /\ sqlite3Get4byte(d, Len(d), 32, 0) >= SQLCIPHER_MIN_HDR_SZ
  /\ Len(d) >= sqlite3Get4byte(d, Len(d), 32, 0)

StoredReserve(d) == sqlite3Get4byte(d, Len(d), 32, 0)

\* the big-endian number stored in the four bytes at 0-based offset o of d
BigEndianAt(d, o) == d[o + 1] * 16777216 + d[o + 2] * 65536 + d[o + 3] * 256 + d[o + 4]

\* what the layer above is meant to see of file d
LogicalContent(d) ==
  IF CarriesHeader(d) THEN SubSeq(d, StoredReserve(d) + 1, Len(d)) ELSE d

---------------------------------------------------------------------------
(* The record of a call through the handle.  hdr, rsv and pend are         *)
(* use_header, reserve_sz and needs_write of the handle when the call was  *)
(* made; ref* is the result of the same call on the reference file;        *)
(* afterOpen marks a size query that is the first call after open.         *)

Op(kind, amt, ofst, data, rc, size, refrc, refdata, refsize, h) ==
  [kind |-> kind, amt |-> amt, ofst |-> ofst, data |-> data, rc |-> rc,
   size |-> size, refrc |-> refrc, refdata |-> refdata, refsize |-> refsize,
   hdr |-> h.use_header, rsv |-> h.reserve_sz, pend |-> h.needs_write,
   afterOpen |-> FALSE, afterWrite |-> FALSE, written |-> <<>>]

\* a read that comes right after a successful write of the same length at
\* the same logical offset remembers what that write wrote
FollowsWrite(prev, amt, ofst) ==
  /\ prev.kind = "write"
  /\ prev.rc = OK
  /\ prev.amt = amt
  /\ prev.ofst = ofst

NoOp ==
  [kind |-> "none", amt |-> 0, ofst |-> 0, data |-> <<>>, rc |-> OK, size |-> 0,
   refrc |-> OK, refdata |-> <<>>, refsize |-> 0, hdr |-> 0, rsv |-> 0, pend |-> 0,
   afterOpen |-> FALSE, afterWrite |-> FALSE, written |-> <<>>]

NoStory == [phase |-> "none", data |-> <<>>]

\* branch is the branch detection took at open, image the header region of
\* the file at that moment when detection decoded a header
NoDetect == [branch |-> "none", image |-> <<>>]

NoHdrWrites == [tried |-> 0, ok |-> 0]

NoReg == [kind |-> "none", name |-> "", nomem |-> FALSE, rc |-> OK, before |-> <<>>]

Init ==
  /\ disk \in InitialFiles
  /\ sector \in SectorSizes
  /\ hstate = "closed"
  /\ p = Handle(0)
  /\ rc_open = OK
  /\ lastop = NoOp
  /\ calls = <<>>
  /\ ref = LogicalContent(disk)
  /\ external = FALSE
  /\ ub = FALSE
  /\ nops = 0
  /\ story = NoStory
  /\ detect = NoDetect
  /\ hdrWrites = NoHdrWrites
  /\ orig = Handle(0)
  /\ cstage = "off"
  /\ vfsList = <<>>
  /\ lastreg = NoReg
  /\ prevreg = NoReg

Open(openFail, f, g, j) ==
  /\ hstate = "closed"
  /\ nops < MaxOps
  /\ LET r == sqlcipherVfsOpen(Handle(j), disk, sector, openFail, f, g)
     IN  /\ p' = r.p
         /\ hstate' = r.state
         /\ rc_open' = r.rc
         /\ calls' = r.calls
         /\ ub' = (ub \/ r.ub)
         /\ lastop' = Op("open", 0, 0, <<>>, r.rc, 0, r.rc, <<>>, 0, r.p)
         /\ story' = IF r.state # "open" THEN NoStory
                     ELSE IF Len(disk) = 0 THEN [phase |-> "new", data |-> <<>>]
                     ELSE IF story.phase = "closed"
                          THEN [story EXCEPT !.phase = "reopened"]
                          ELSE NoStory
         /\ detect' = IF r.state # "open" THEN NoDetect
                      ELSE [branch |-> r.branch,
                            image |-> IF r.branch = "header"
                                      THEN SubSeq(disk, 1, r.p.reserve_sz)
                                      ELSE <<>>]
  /\ hdrWrites' = NoHdrWrites
  /\ nops' = nops + 1
  /\ UNCHANGED <<disk, sector, ref, external, codecVars, regVars>>

Close ==
  /\ hstate = "open"
  /\ nops < MaxOps
  /\ hstate' = "closed"
  /\ calls' = << Call("xClose", 0, 0, OK) >>
  /\ lastop' = Op("close", 0, 0, <<>>, OK, 0, OK, <<>>, 0, p)
  /\ story' = IF story.phase = "written" THEN [story EXCEPT !.phase = "closed"]
              ELSE NoStory
  /\ detect' = NoDetect
  /\ hdrWrites' = NoHdrWrites
  /\ nops' = nops + 1
  /\ UNCHANGED <<disk, sector, p, rc_open, ref, external, ub, codecVars, regVars>>

Read(amt, ofst, fail) ==
  /\ hstate = "open"
  /\ nops < MaxOps
  /\ LET r == sqlcipherVfsRead(p, disk, amt, ofst, fail)
         q == xRead(ref, amt, ofst, fail)
     IN  /\ calls' = r.calls
         /\ lastop' = [Op("read", amt, ofst, r.data, r.rc, 0, q.rc, q.data, 0, p)
                          EXCEPT !.afterWrite = FollowsWrite(lastop, amt, ofst),
                                 !.written = IF FollowsWrite(lastop, amt, ofst)
                                             THEN lastop.data ELSE <<>>]
  /\ nops' = nops + 1
  /\ UNCHANGED <<disk, sector, hstate, p, rc_open, ref, external, ub, story,
                 detect, hdrWrites, codecVars, regVars>>

\* failH makes the header write fail: it applies to a call that issues one
Write(data, ofst, failH, failD) ==
  /\ hstate = "open"
  /\ nops < MaxOps
  /\ failH => HeaderWriteDue(p, ofst)
  /\ LET r == sqlcipherVfsWrite(p, disk, data, ofst, failH, failD)
         q == xWrite(ref, data, ofst, failD)
     IN  /\ disk' = r.disk
         /\ p' = r.p
         /\ ref' = q.disk
         /\ calls' = r.calls
         /\ ub' = (ub \/ r.ub)
         /\ lastop' = Op("write", Len(data), ofst, data, r.rc, 0, q.rc, <<>>, 0, p)
         /\ story' = IF story.phase = "new" /\ ofst = 0 /\ r.rc = OK /\ ~external
                     THEN [phase |-> "written", data |-> data]
                     ELSE NoStory
         /\ hdrWrites' =
              IF r.hdrWritten
              THEN [tried |-> hdrWrites.tried + 1,
                    ok |-> hdrWrites.ok + (IF r.calls[1].rc = OK THEN 1 ELSE 0)]
              ELSE hdrWrites
  /\ nops' = nops + 1
  /\ UNCHANGED <<sector, hstate, rc_open, external, detect, codecVars, regVars>>

Truncate(size, fail) ==
  /\ hstate = "open"
  /\ nops < MaxOps
  /\ LET r == sqlcipherVfsTruncate(p, disk, size, fail)
         q == xTruncate(ref, size, fail)
     IN  /\ disk' = r.disk
         /\ ref' = q.disk
         /\ calls' = r.calls
         /\ lastop' = Op("truncate", 0, size, <<>>, r.rc, 0, q.rc, <<>>, 0, p)
  /\ story' = NoStory
  /\ nops' = nops + 1
  /\ UNCHANGED <<sector, hstate, p, rc_open, external, ub, detect, hdrWrites,
                 codecVars, regVars>>

FileSize(fail, junk) ==
  /\ hstate = "open"
  /\ nops < MaxOps
  /\ LET r == sqlcipherVfsFileSize(p, disk, fail, junk)
         q == xFileSize(ref, fail, junk)
     IN  /\ calls' = r.calls
         /\ lastop' = [Op("filesize", 0, 0, <<>>, r.rc, r.size, q.rc, <<>>, q.size, p)
                          EXCEPT !.afterOpen = (lastop.kind = "open")]
  /\ nops' = nops + 1
  /\ UNCHANGED <<disk, sector, hstate, p, rc_open, ref, external, ub, story,
                 detect, hdrWrites, codecVars, regVars>>

\* close aside, the methods that forward to the underlying file unchanged
PassThrough(fn, fail) ==
  /\ hstate = "open"
  /\ nops < MaxOps
  /\ calls' = << Call(fn, 0, 0, IF fail THEN IOERR ELSE OK) >>
  /\ lastop' = Op(fn, 0, 0, <<>>, IF fail THEN IOERR ELSE OK, 0,
                  IF fail THEN IOERR ELSE OK, <<>>, 0, p)
  /\ nops' = nops + 1
  /\ UNCHANGED <<disk, sector, hstate, p, rc_open, ref, external, ub, story,
                 detect, hdrWrites, codecVars, regVars>>

\* another process cuts the real file short, behind the shim
ExternalTruncate(size) ==
  /\ nops < MaxOps
  /\ hstate # "crashed"
  /\ size < Len(disk)
  /\ disk' = SubSeq(disk, 1, size)
  /\ external' = TRUE
  /\ lastop' = Op("external", 0, size, <<>>, OK, 0, OK, <<>>, 0, p)
  /\ calls' = <<>>
  /\ story' = NoStory
  /\ nops' = nops + 1
  /\ UNCHANGED <<sector, hstate, p, rc_open, ref, ub, detect, hdrWrites,
                 codecVars, regVars>>

Next ==
  \/ \E openFail \in BOOLEAN, f \in Faults, g \in GarbageBytes, j \in Junk :
        Open(openFail, f, g, j)
  \/ Close
  \/ \E amt \in ReadLens, ofst \in Offsets, fail \in BOOLEAN : Read(amt, ofst, fail)
  \/ \E data \in WriteBufs, ofst \in Offsets, failH \in BOOLEAN, failD \in BOOLEAN :
        Write(data, ofst, failH, failD)
  \/ \E size \in TruncSizes, fail \in BOOLEAN : Truncate(size, fail)
  \/ \E fail \in BOOLEAN, junk \in JunkSizes : FileSize(fail, junk)
  \/ \E fn \in PassThroughs, fail \in BOOLEAN : PassThrough(fn, fail)
  \/ \E size \in ExternalSizes : ExternalTruncate(size)

Spec == Init /\ [][Next]_vars

---------------------------------------------------------------------------
(* Properties of the file specification *)

Offsetting == { "read", "write", "truncate", "filesize" }

\* C1: every read, write, truncate and fileSize issued through the shim,
\* with the handle closed and reopened at will, returns the result and the
\* bytes the same call returns on a header-less reference file that starts
\* at offset 0 (the real file is not touched behind the shim).
C1_ObservationalEquivalence ==
  (lastop.kind \in Offsetting /\ ~external) =>
     /\ lastop.rc = lastop.refrc
     /\ (lastop.kind = "read" => lastop.data = lastop.refdata)
     /\ (lastop.kind = "filesize" /\ lastop.rc = OK => lastop.size = lastop.refsize)

\* the offset the handle had to apply when lastop was made
OpOffset == IF lastop.hdr = 1 THEN lastop.rsv ELSE 0

UnderlyingFn ==
  CASE lastop.kind = "read" -> "xRead"
    [] lastop.kind = "write" -> "xWrite"
    [] lastop.kind = "truncate" -> "xTruncate"
    [] OTHER -> "none"

\* the header write a logical write may issue before its data write
IsHeaderCall(c) == c.fn = "xWrite" /\ c.ofst = 0 /\ c.amt = lastop.rsv

\* C2: a logical read(len, O), write(len, O) or truncate(S) issues exactly
\* one underlying data call of the same kind, with the same length and with
\* offset O + reserve_sz on a handle with an active header and O on one
\* without, and returns that call's result unchanged; the only other call a
\* handler may issue is the header write of a logical write.
C2_OffsetTranslation ==
  lastop.kind \in { "read", "write", "truncate" } =>
     /\ Len(calls) >= 1
     /\ calls[Len(calls)] =
          Call(UnderlyingFn, lastop.amt, lastop.ofst + OpOffset, lastop.rc)
     /\ \A i \in 1..(Len(calls) - 1) : lastop.kind = "write" /\ IsHeaderCall(calls[i])
     /\ Len(calls) <= 2
     /\ (lastop.kind = "read" /\ lastop.rc # IOERR =>
           lastop.data = xRead(disk, lastop.amt, lastop.ofst + OpOffset, FALSE).data)

C2_Witness ==
  /\ lastop.kind = "write"
  /\ lastop.hdr = 1
  /\ lastop.rsv = 64
  /\ lastop.ofst = 4
  /\ lastop.rc = OK
  /\ calls = << Call("xWrite", lastop.amt, 68, OK) >>

\* C3: a read of L bytes at logical offset O that comes right after a
\* successful write of L bytes at O returns exactly the written bytes,
\* whatever use_header, reserve_sz and needs_write of the handle are.
C3_OffsetInvariance ==
  (lastop.kind = "read" /\ lastop.afterWrite /\ lastop.rc # IOERR) =>
     /\ lastop.rc = OK
     /\ lastop.data = lastop.written

C3_Witness ==
  /\ lastop.kind = "read"
  /\ lastop.afterWrite
  /\ lastop.rc = OK
  /\ lastop.hdr = 1
  /\ lastop.rsv = 64
  /\ lastop.ofst = 4
  /\ lastop.data = lastop.written
  /\ Len(lastop.data) = 4

\* C4: on a brand-new file (real size 0 at open, sector size R), after N
\* bytes were written at logical offset 0, fileSize() reports N while the
\* real size of the underlying file is N + R.
C4_HeaderTransparency ==
  (lastop.kind = "filesize" /\ lastop.rc = OK /\ story.phase = "written") =>
     /\ lastop.size = Len(story.data)
     /\ Len(disk) = Len(story.data) + sector

\* C5: on a handle with an active header fileSize() returns
\* max(0, realSize - reserve_sz), so 0 when the real file was cut below
\* reserve_sz behind the shim, and never a negative value; on a handle
\* without an active header it returns realSize unchanged.
C5_FloorOfLogicalSize ==
  lastop.kind = "filesize" =>
     /\ (lastop.hdr = 1 /\ lastop.rc = OK =>
           lastop.size = Max(0, Len(disk) - lastop.rsv))
     /\ (lastop.hdr = 1 => lastop.size >= 0)
     /\ (lastop.hdr = 0 /\ lastop.rc = OK => lastop.size = Len(disk))
     /\ (lastop.rc = OK => lastop.size >= 0)

C5_Witness ==
  /\ lastop.kind = "filesize"
  /\ lastop.rc = OK
  /\ lastop.hdr = 1
  /\ external
  /\ Len(disk) > 0
  /\ Len(disk) < lastop.rsv
  /\ lastop.size = 0

\* C6: for a file that does not start with the magic, fileSize() called
\* right after open returns the real size of the file: 0 for the empty
\* file, whose handle holds the pending reserve size, and the length of an
\* existing file of any length, lengths below 36 included.
C6_SizeAfterOpenHeaderless ==
  (lastop.kind = "filesize" /\ lastop.afterOpen /\ lastop.rc = OK
     /\ ~StartsWithMagic(disk)) =>
        lastop.size = Len(disk)

C6_Witness ==
  /\ lastop.kind = "filesize"
  /\ lastop.afterOpen
  /\ lastop.rc = OK
  /\ Len(disk) = 0
  /\ p.reserve_sz = sector
  /\ p.needs_write = 1
  /\ lastop.size = 0

\* C7: after the first successful write of N bytes at logical offset 0 on a
\* new empty file (sector size S) the underlying file holds the header at
\* [0, S) and the data at [S, S+N); after close, the reopen detects the
\* magic and sets reserve_sz = S with the header active and nothing
\* pending, and a read of N bytes at logical offset 0 returns the data.
C7_HeaderPersistence ==
  /\ story.phase \in { "written", "closed", "reopened" } =>
        /\ Len(disk) = sector + Len(story.data)
        /\ StartsWithMagic(disk)
        /\ StoredReserve(disk) = sector
        /\ SubSeq(disk, sector + 1, Len(disk)) = story.data
  /\ story.phase = "reopened" =>
        /\ p.use_header = 1
        /\ p.reserve_sz = sector
        /\ p.needs_write = 0
        /\ (lastop.kind = "read" /\ lastop.ofst = 0 /\ lastop.amt = Len(story.data)
              /\ lastop.rc # IOERR => lastop.data = story.data)

---------------------------------------------------------------------------
(* Header detection at open.  In the state right after an open that        *)
(* returned, calls holds xOpen, then the 36-byte read, then what the       *)
(* branch taken issued; the file is as it was when the open ran.           *)

JustOpened == lastop.kind = "open" /\ hstate = "open"

\* C11: when the 36-byte read of the detection fails and the size query
\* reports a size of exactly 0, the handle after open has reserve_sz equal
\* to the sector size of the device, use_header = 1 and needs_write = 1.
C11_NewFileDetection ==
  (/\ JustOpened
   /\ calls[2].rc # OK
   /\ calls[3] = Call("xFileSize", 0, 0, OK)
   /\ Len(disk) = 0) =>
     /\ p.reserve_sz = sector
     /\ p.use_header = 1
     /\ p.needs_write = 1

\* C12: when the 36-byte read succeeds and the file starts with the magic,
\* the handle after open has use_header = 1, needs_write = 0, reserve_sz
\* equal to the number stored at offset 32 and the five other fields equal
\* to the numbers stored at offsets 36..55: no handle works at offset zero
\* on a file that starts with the magic.
C12_ExistingHeaderDetection ==
  (JustOpened /\ calls[2].rc = OK /\ StartsWithMagic(disk)) =>
     /\ p.use_header = 1
     /\ p.needs_write = 0
     /\ p.reserve_sz = StoredReserve(disk)
     /\ HeaderOffset(p) = StoredReserve(disk)
     /\ (Len(disk) >= HdrFieldsEnd =>
           /\ p.version = BigEndianAt(disk, 36)
           /\ p.page_sz = BigEndianAt(disk, 40)
           /\ p.kdf_iter = BigEndianAt(disk, 44)
           /\ p.fast_kdf_iter = BigEndianAt(disk, 48)
           /\ p.flags = BigEndianAt(disk, 52))

\* C13: when the 36-byte read succeeds and the file does not start with the
\* magic, open returns SQLITE_OK, issues no write or truncate, and leaves
\* reserve_sz = 0 and use_header = 0; for the lifetime of that handle every
\* read, write and truncate is one underlying call at the caller's own
\* offset and no header write is issued.
C13_PlainFilesUntouched ==
  /\ (JustOpened /\ calls[2].rc = OK /\ ~StartsWithMagic(disk)) =>
        /\ detect.branch = "plain"
        /\ rc_open = OK
        /\ \A i \in 1..Len(calls) : calls[i].fn \notin { "xWrite", "xTruncate" }
  /\ detect.branch = "plain" =>
        /\ p.reserve_sz = 0
        /\ p.use_header = 0
        /\ hdrWrites.tried = 0
        /\ (lastop.kind \in { "read", "write", "truncate" } =>
              calls = << Call(UnderlyingFn, lastop.amt, lastop.ofst, lastop.rc) >>)

C13_Witness ==
  /\ detect.branch = "plain"
  /\ lastop.kind = "write"
  /\ lastop.ofst = 0
  /\ lastop.rc = OK
  /\ calls = << Call("xWrite", 64, 0, OK) >>
  /\ StartsWithMagic(disk)
  /\ p.use_header = 0

\* C14: when the 36-byte read of the detection fails and the size query
\* fails or reports a size other than 0, open returns an error; no handle
\* whose detection ended unresolved serves a read, write, truncate or
\* size query.
C14_UnresolvedDetectionFails ==
  /\ (/\ lastop.kind = "open"
      /\ Len(calls) >= 3
      /\ calls[2].rc # OK
      /\ (calls[3].rc # OK \/ Len(disk) # 0)) =>
        /\ rc_open # OK
        /\ hstate # "open"
  /\ detect.branch = "unknown issue" => lastop.kind \notin Offsetting

---------------------------------------------------------------------------
(* The handle of a new file with the header enabled.  Detection leaves     *)
(* use_header at 0 on a new file and no code of crypto_vfs.c sets it, so   *)
(* the header write of sqlcipherVfsWrite is out of reach of Spec.          *)
(* SpecHandle starts where the design puts a new file once it is open:     *)
(* empty file, reserve_sz the sector size, use_header and needs_write set, *)
(* the fields stored by the layer above.  From there on the steps are the  *)
(* ones of Spec.                                                           *)

NewFileHandle(sect) ==
  [StoredFields EXCEPT !.wired = TRUE, !.use_header = 1, !.needs_write = 1,
                       !.reserve_sz = sect]

InitHandle ==
  /\ disk = <<>>
  /\ sector \in SectorSizes
  /\ hstate = "open"
  /\ p = NewFileHandle(sector)
  /\ rc_open = OK
  /\ lastop = Op("open", 0, 0, <<>>, OK, 0, OK, <<>>, 0, p)
  /\ calls = << Call("xOpen", 0, 0, OK),
                Call("xRead", SQLCIPHER_MIN_HDR_SZ, 0, SHORT_READ),
                Call("xFileSize", 0, 0, OK), Call("xSectorSize", 0, 0, OK) >>
  /\ ref = <<>>
  /\ external = FALSE
  /\ ub = FALSE
  /\ nops = 1
  /\ story = [phase |-> "new", data |-> <<>>]
  /\ detect = [branch |-> "new", image |-> <<>>]
  /\ hdrWrites = NoHdrWrites
  /\ orig = Handle(0)
  /\ cstage = "off"
  /\ vfsList = <<>>
  /\ lastreg = NoReg
  /\ prevreg = NoReg

SpecHandle == InitHandle /\ [][Next]_vars

\* the calls made through an open handle
HandleOps == Offsetting \cup PassThroughs

\* the last call was a logical write that wrote the header before its data
HeaderWriteIssued == lastop.kind = "write" /\ Len(calls) = 2

C18_FailedOpenIsSafe ==
  (lastop.kind = "open" /\ calls[1] = Call("xOpen", 0, 0, CANTOPEN)) =>
     /\ ~p.wired
     /\ \A i \in 2..Len(calls) :
           calls[i].fn \notin { "xRead", "xFileSize", "xSectorSize" }
     /\ hstate # "crashed"
     /\ rc_open = CANTOPEN

\* C19: whenever the header is encoded (the header write of a logical
\* write) or its fields are decoded (detection found a header), reserve_sz
\* of the handle is at least 56, so no access leaves the reserve_sz-byte
\* buffer; a reserve size of 0..55 leads to neither.
C19_HeaderBufferBounds ==
  /\ HeaderWriteIssued => lastop.rsv >= HdrFieldsEnd
  /\ (JustOpened /\ p.did_read = 1) => p.reserve_sz >= HdrFieldsEnd
  /\ ~ub

\* C20: on a handle whose detection found a header (reserve_sz = R,
\* use_header set, nothing pending) and with the file untouched behind the
\* shim, after any sequence of logical writes and truncates the underlying
\* file is at least R bytes long and its bytes [0, R) are the ones it held
\* when the handle was opened.
C20_HeaderRegionProtected ==
  (detect.branch = "header" /\ ~external) =>
     /\ p.use_header = 1
     /\ p.needs_write = 0
     /\ Len(detect.image) = p.reserve_sz
     /\ Len(disk) >= p.reserve_sz
     /\ SubSeq(disk, 1, p.reserve_sz) = detect.image

C20_Witness ==
  /\ detect.branch = "header"
  /\ ~external
  /\ p.reserve_sz = 64
  /\ lastop.kind = "truncate"
  /\ lastop.ofst = 0
  /\ lastop.rc = OK
  /\ Len(disk) = 64
  /\ disk = HeaderBuffer(StoredFields)

---------------------------------------------------------------------------
(* The header codec on its own: sqlcipherVfsWriteHeader on a handle whose  *)
(* fields the layer above has set, then sqlcipherVfsReadHeader, on a fresh *)
(* handle, on the bytes that were written.                                 *)

CodecHandles ==
  { [Handle(0) EXCEPT !.wired = TRUE, !.use_header = 1, !.needs_write = 1,
                      !.reserve_sz = r, !.version = v, !.page_sz = ps,
                      !.kdf_iter = k, !.fast_kdf_iter = 2, !.flags = fl] :
      r \in { 40, 56, 64, 128 }, v \in { 0, 4 }, ps \in { 1024, 65536 },
      k \in { 256000, 2147483647 }, fl \in { 1, 16909060 } }

InitCodec ==
  /\ disk = <<>>
  /\ sector \in SectorSizes
  /\ hstate = "open"
  /\ p \in CodecHandles
  /\ rc_open = OK
  /\ lastop = NoOp
  /\ calls = <<>>
  /\ ref = <<>>
  /\ external = FALSE
  /\ ub = FALSE
  /\ nops = 0
  /\ story = NoStory
  /\ detect = NoDetect
  /\ hdrWrites = NoHdrWrites
  /\ orig = p
  /\ cstage = "init"
  /\ vfsList = <<>>
  /\ lastreg = NoReg
  /\ prevreg = NoReg

CodecWriteHeader(fail) ==
  /\ cstage = "init"
  /\ LET w == sqlcipherVfsWriteHeader(p, disk, fail)
     IN  /\ disk' = w.disk
         /\ calls' = w.calls
         /\ ub' = (ub \/ w.ub)
         /\ cstage' = IF w.wrc = OK THEN "written" ELSE "write_failed"
  /\ UNCHANGED <<sector, hstate, p, rc_open, lastop, ref, external, nops, story,
                 detect, hdrWrites, orig, regVars>>

CodecReadHeader(f, g, j) ==
  /\ cstage = "written"
  /\ LET r == sqlcipherVfsReadHeader([Handle(j) EXCEPT !.wired = TRUE], disk, sector, f, g)
     IN  /\ p' = r.p
         /\ calls' = r.calls
         /\ ub' = (ub \/ r.ub)
         /\ cstage' = IF \E c \in 1..Len(r.calls) : r.calls[c].rc = IOERR
                      THEN "detect_failed" ELSE "detected"
  /\ UNCHANGED <<disk, sector, hstate, rc_open, lastop, ref, external, nops, story,
                 detect, hdrWrites, orig, regVars>>

NextCodec ==
  \/ \E fail \in BOOLEAN : CodecWriteHeader(fail)
  \/ \E f \in Faults, g \in GarbageBytes, j \in Junk : CodecReadHeader(f, g, j)

SpecCodec == InitCodec /\ [][NextCodec]_vars

\* C10: a header with reserve_sz >= 56 that was written by the write-header
\* operation is detected on the produced bytes with reserve_sz, version,
\* page_sz, kdf_iter, fast_kdf_iter and flags equal to the originals; the
\* bytes hold the magic at offset 0 and the fields, big-endian, at offsets
\* 32, 36, 40, 44, 48 and 52.
C10_HeaderRoundTrip ==
  (cstage = "detected" /\ orig.reserve_sz >= HdrFieldsEnd) =>
     /\ p.use_header = 1
     /\ p.did_read = 1
     /\ p.needs_write = 0
     /\ p.reserve_sz = orig.reserve_sz
     /\ p.version = orig.version
     /\ p.page_sz = orig.page_sz
     /\ p.kdf_iter = orig.kdf_iter
     /\ p.fast_kdf_iter = orig.fast_kdf_iter
     /\ p.flags = orig.flags
     /\ Len(disk) = orig.reserve_sz
     /\ SubSeq(disk, 1, 32) = sqlcipherMagic
     /\ BigEndianAt(disk, 32) = orig.reserve_sz
     /\ BigEndianAt(disk, 36) = orig.version
     /\ BigEndianAt(disk, 40) = orig.page_sz
     /\ BigEndianAt(disk, 44) = orig.kdf_iter
     /\ BigEndianAt(disk, 48) = orig.fast_kdf_iter
     /\ BigEndianAt(disk, 52) = orig.flags

C10_Witness ==
  /\ cstage = "detected"
  /\ orig.reserve_sz = 56
  /\ orig.kdf_iter = 2147483647
  /\ orig.flags = 16909060
  /\ p.kdf_iter = 2147483647
  /\ p.flags = 16909060
  /\ p.version = 4
  /\ p.page_sz = 65536

---------------------------------------------------------------------------
(* The VFS list of the SQLite core and sqlcipherVfs_register.  A VFS is a  *)
(* record: addr is its address (what the list compares), root the name of  *)
(* the VFS kept in pInfo->pRootVfs (the shim only).                        *)

NullName == "(null)"

newVfsName == "sqlcipher"

NullVfs == [addr |-> 0, zName |-> "", root |-> "", xOpen |-> ""]

Native(a, n) == [addr |-> a, zName |-> n, root |-> "", xOpen |-> "native"]

Natives == { Native(1, "unix"), Native(2, "unix-excl"), Native(3, "memdb") }

RegNames == { "unix", "memdb", "nosuch", newVfsName, NullName }

\* sqlite3_vfs_find: the default VFS for a NULL name, else the first VFS of
\* that name, else NULL
sqlite3_vfs_find(list, zVfs) ==
  IF zVfs = NullName
  THEN (IF Len(list) = 0 THEN NullVfs ELSE list[1])
  ELSE LET hits == { i \in 1..Len(list) : list[i].zName = zVfs }
       IN  IF hits = {} THEN NullVfs
           ELSE list[CHOOSE i \in hits : \A k \in hits : i <= k]

vfsUnlink(list, pVfs) == SelectSeq(list, LAMBDA v : v.addr # pVfs.addr)

\* sqlite3_vfs_register: unlink the VFS, then link it first (makeDflt, or an
\* empty list) or second
sqlite3_vfs_register(list, pVfs, makeDflt) ==
  LET l == vfsUnlink(list, pVfs)
  IN  IF makeDflt \/ Len(l) = 0 THEN << pVfs >> \o l
      ELSE << l[1], pVfs >> \o Tail(l)

\* sqlite3_malloc: an address no linked VFS has
FreshAddr(list) ==
  CHOOSE a \in 1..(Len(list) + Cardinality(Natives) + 1) :
     /\ \A i \in 1..Len(list) : list[i].addr # a
     /\ \A n \in Natives : n.addr # a

ShimVfs(list, pRoot) ==
  [addr |-> FreshAddr(list), zName |-> newVfsName, root |-> pRoot.zName,
   xOpen |-> "sqlcipherVfsOpen"]

\* faulty variant: a new shim is allocated and registered on every call
sqlcipherVfs_register_AlwaysNew(list, zOldVfsName, mallocFail) ==
  LET pRoot == sqlite3_vfs_find(list, zOldVfsName)
  IN  IF pRoot = NullVfs THEN [rc |-> NOTFOUND, list |-> list]
      ELSE IF mallocFail THEN [rc |-> NOMEM, list |-> list]
      ELSE [rc |-> OK, list |-> sqlite3_vfs_register(list, ShimVfs(list, pRoot), TRUE)]

\* faulty variant: the result of the lookup of zOldVfsName is not checked
sqlcipherVfs_register_NoRootCheck(list, zOldVfsName, mallocFail) ==
  LET pNew == sqlite3_vfs_find(list, newVfsName)
      pRoot == sqlite3_vfs_find(list, zOldVfsName)
  IN  IF pNew = NullVfs
      THEN IF mallocFail THEN [rc |-> NOMEM, list |-> list]
           ELSE [rc |-> OK,
                 list |-> sqlite3_vfs_register(list, ShimVfs(list, pRoot), TRUE)]
      ELSE [rc |-> OK, list |-> sqlite3_vfs_register(list, pNew, TRUE)]

sqlcipherVfs_register(list, zOldVfsName, mallocFail) ==
  LET pNew == sqlite3_vfs_find(list, newVfsName)
      pRoot == sqlite3_vfs_find(list, zOldVfsName)
  IN  IF pNew = NullVfs
      THEN IF pRoot = NullVfs THEN [rc |-> NOTFOUND, list |-> list]
           ELSE IF mallocFail THEN [rc |-> NOMEM, list |-> list]
           ELSE [rc |-> OK,
                 list |-> sqlite3_vfs_register(list, ShimVfs(list, pRoot), TRUE)]
      ELSE [rc |-> OK, list |-> sqlite3_vfs_register(list, pNew, TRUE)]

InitReg ==
  /\ disk = <<>>
  /\ sector \in SectorSizes
  /\ hstate = "closed"
  /\ p = Handle(0)
  /\ rc_open = OK
  /\ lastop = NoOp
  /\ calls = <<>>
  /\ ref = <<>>
  /\ external = FALSE
  /\ ub = FALSE
  /\ nops = 0
  /\ story = NoStory
  /\ detect = NoDetect
  /\ hdrWrites = NoHdrWrites
  /\ orig = Handle(0)
  /\ cstage = "off"
  /\ vfsList \in { <<>>, << Native(1, "unix") >>,
                   << Native(1, "unix"), Native(2, "unix-excl") >> }
  /\ lastreg = NoReg
  /\ prevreg = NoReg

Register(zOldVfsName, mallocFail) ==
  /\ LET r == sqlcipherVfs_register(vfsList, zOldVfsName, mallocFail)
     IN  /\ vfsList' = r.list
         /\ lastreg' = [kind |-> "register", name |-> zOldVfsName,
                        nomem |-> mallocFail, rc |-> r.rc, before |-> vfsList]
  /\ prevreg' = lastreg
  /\ UNCHANGED <<fileVars, codecVars>>

\* the application registers one of the built-in VFSes
AppRegister(v, makeDflt) ==
  /\ vfsList' = sqlite3_vfs_register(vfsList, v, makeDflt)
  /\ lastreg' = NoReg
  /\ prevreg' = NoReg
  /\ UNCHANGED <<fileVars, codecVars>>

\* the application unregisters a VFS of the list (sqlite3_vfs_unregister)
AppUnregister(i) ==
  /\ i \in 1..Len(vfsList)
  /\ vfsList' = vfsUnlink(vfsList, vfsList[i])
  /\ lastreg' = NoReg
  /\ prevreg' = NoReg
  /\ UNCHANGED <<fileVars, codecVars>>

NextReg ==
  \/ \E n \in RegNames, mallocFail \in BOOLEAN : Register(n, mallocFail)
  \/ \E v \in Natives, makeDflt \in BOOLEAN : AppRegister(v, makeDflt)
  \/ \E i \in 1..4 : AppUnregister(i)

SpecReg == InitReg /\ [][NextReg]_vars

\* a provider called name is registered in list (NULL names the default)
Existing(list, name) ==
  IF name = NullName THEN Len(list) > 0
  ELSE \E i \in 1..Len(list) : list[i].zName = name

Shims(list) == { i \in 1..Len(list) : list[i].zName = newVfsName }

\* C8: two register calls in a row with the same name, a provider of that
\* name being registered and the allocation of the first call succeeding,
\* both return SQLITE_OK and leave exactly one provider called "sqlcipher"
\* in the list, the very provider (same underlying provider) the first call
\* left there.
C8_IdempotentRegistration ==
  (/\ prevreg.kind = "register"
   /\ lastreg.kind = "register"
   /\ prevreg.name = lastreg.name
   /\ Existing(prevreg.before, prevreg.name)
   /\ ~prevreg.nomem) =>
     /\ prevreg.rc = OK
     /\ lastreg.rc = OK
     /\ Cardinality(Shims(lastreg.before)) = 1
     /\ Cardinality(Shims(vfsList)) = 1
     /\ \A i \in Shims(vfsList), k \in Shims(lastreg.before) :
           /\ vfsList[i] = lastreg.before[k]
           /\ vfsList[i].xOpen = "sqlcipherVfsOpen"

C8_Witness ==
  /\ prevreg.kind = "register"
  /\ lastreg.kind = "register"
  /\ prevreg.name = "unix"
  /\ lastreg.name = "unix"
  /\ Shims(prevreg.before) = {}
  /\ Len(prevreg.before) = 2
  /\ prevreg.rc = OK
  /\ lastreg.rc = OK
  /\ Len(vfsList) = 3
  /\ vfsList[1].zName = newVfsName
  /\ vfsList[1].root = "unix"

===========================================================================
